---- MODULE Spec2Model ----
(***************************************************************************)
(* Model of server/app.py: the /api/pcap/parse handler (parse_pcap) and    *)
(* its helpers _iso_time, _packet_src_dst, _protocol_tags, _alert_rules.   *)
(*                                                                         *)
(* Encodings.                                                              *)
(*  - An address is a positive integer; Python's None is NoneAddr and the  *)
(*    string "unknown" is Unknown.                                         *)
(*  - A dict (dict, defaultdict, Counter) is a sequence of <<key, value>>  *)
(*    pairs in insertion order, which is the iteration order of a Python   *)
(*    dict.                                                                *)
(*  - The bytes of an upload / of a file are a record [kind, pkts]: kind   *)
(*    "pcap" is a well-formed capture holding the packets pkts, "garbage"  *)
(*    is bytes that are not a capture, "empty" is zero bytes.              *)
(*  - A decoded packet is a record: time (seconds since the epoch), len    *)
(*    (len(pkt)), layers (the set of L with pkt.haslayer(L)) and the       *)
(*    addresses of its IP and IPv6 layers.                                 *)
(*  - The float comparisons  a / b > 0.35  and  a / b > 0.6  are modelled  *)
(*    by the exact comparisons 100a > 35b and 10a > 6b: the quotient is    *)
(*    correctly rounded and the literal is the double nearest to the       *)
(*    decimal, so both agree for every operand far below 2^53.             *)
(*  - The event loop runs one coroutine at a time: a request gives up the  *)
(*    loop only at `await pcap.read()`; `running` is the request that      *)
(*    holds the loop.                                                      *)
(***************************************************************************)
EXTENDS Integers, Sequences, FiniteSets, TLC

VARIABLES upload, pc, running, tmpdir, filedata, tmpname, packets, idx,
          packet_count, total_bytes, capture_start, capture_end,
          protocol_counts, talkers, unique_hosts, flows, tags, result, raised

vars == <<upload, pc, running, tmpdir, filedata, tmpname, packets, idx,
          packet_count, total_bytes, capture_start, capture_end,
          protocol_counts, talkers, unique_hosts, flows, tags, result, raised>>

(***************************************************************************)
(* Bounds of the model.                                                    *)
(***************************************************************************)
NumRequests == 2
MaxLen == 3
CrowdLen == 1
WideHosts == 14
DnsLen == 20

(***************************************************************************)
(* Program constants.                                                      *)
(***************************************************************************)
TopN == 12
LargeCapture == 100000
DnsShareNum == 35
DnsShareDen == 100
DominanceNum == 6
DominanceDen == 10
NoneAddr == 0
Unknown == 0 - 1
NoRequest == 0
NoName == 0

Requests == 1..NumRequests
TmpNames == 1..NumRequests
Layers == {"TCP", "UDP", "ICMP", "DNS", "IPv6", "IP"}
NoTime == <<>>
NoneTime == 0 - 1

(***************************************************************************)
(* Sequence and dict helpers.                                              *)
(***************************************************************************)
Upd(f, r, v) == [f EXCEPT ![r] = v]

Range(s) == {s[i] : i \in 1..Len(s)}

Keys(d) == {d[i][1] : i \in 1..Len(d)}

DictGet(d, k, default) ==
    IF k \in Keys(d)
    THEN d[CHOOSE i \in 1..Len(d) : d[i][1] = k][2]
    ELSE default

DictSet(d, k, v) ==
    IF k \in Keys(d)
    THEN [i \in 1..Len(d) |-> IF d[i][1] = k THEN <<k, v>> ELSE d[i]]
    ELSE Append(d, <<k, v>>)

Take(s, n) == SubSeq(s, 1, IF Len(s) < n THEN Len(s) ELSE n)

ItemValues(d) == [i \in 1..Len(d) |-> d[i][2]]

FlowBytes(fl) == [i \in 1..Len(fl) |-> fl[i][2].bytes]

InsertDesc(s, x) ==
    LET p == Cardinality({j \in 1..Len(s) : s[j][2] >= x[2]})
    IN SubSeq(s, 1, p) \o <<x>> \o SubSeq(s, p + 1, Len(s))

SortedDesc(items, weight) ==
    LET f[n \in 0..Len(items)] ==
            IF n = 0 THEN <<>> ELSE InsertDesc(f[n - 1], <<items[n], weight[n]>>)
        sorted == f[Len(items)]
    IN [i \in 1..Len(items) |-> sorted[i][1]]

InsertAsc(s, x) ==
    LET p == Cardinality({j \in 1..Len(s) : s[j][2] <= x[2]})
    IN SubSeq(s, 1, p) \o <<x>> \o SubSeq(s, p + 1, Len(s))

SortedAsc(items, weight) ==
    LET f[n \in 0..Len(items)] ==
            IF n = 0 THEN <<>> ELSE InsertAsc(f[n - 1], <<items[n], weight[n]>>)
        sorted == f[Len(items)]
    IN [i \in 1..Len(items) |-> sorted[i][1]]

Reverse(s) == [i \in 1..Len(s) |-> s[Len(s) + 1 - i]]

SumValues(d) ==
    LET f[n \in 0..Len(d)] == IF n = 0 THEN 0 ELSE f[n - 1] + d[n][2]
    IN f[Len(d)]

MaxValue(d) ==
    CHOOSE v \in {d[i][2] : i \in 1..Len(d)} : \A i \in 1..Len(d) : v >= d[i][2]

SumLen(pkts) ==
    LET f[n \in 0..Len(pkts)] == IF n = 0 THEN 0 ELSE f[n - 1] + pkts[n].len
    IN f[Len(pkts)]

(***************************************************************************)
(* The helpers of app.py.                                                  *)
(***************************************************************************)
haslayer(pkt, layer) == layer \in pkt.layers

iso_time(timestamp) ==
    IF timestamp = NoneTime THEN NoTime
    ELSE <<1970, 1, 1, (timestamp \div 3600) % 24, (timestamp \div 60) % 60,
           timestamp % 60>>

packet_src_dst(pkt) ==
    IF haslayer(pkt, "IP") THEN <<pkt.ipsrc, pkt.ipdst>>
    ELSE IF haslayer(pkt, "IPv6") THEN <<pkt.ip6src, pkt.ip6dst>>
    ELSE <<NoneAddr, NoneAddr>>

protocol_tags_elif(pkt) ==
    IF haslayer(pkt, "TCP") THEN <<"TCP">>
    ELSE IF haslayer(pkt, "UDP") THEN <<"UDP">>
    ELSE IF haslayer(pkt, "ICMP") THEN <<"ICMP">>
    ELSE IF haslayer(pkt, "DNS") THEN <<"DNS">>
    ELSE IF haslayer(pkt, "IPv6") THEN <<"IPv6">>
    ELSE IF haslayer(pkt, "IP") THEN <<"IPv4">>
    ELSE <<"Other">>

protocol_tags(pkt) ==
    LET t == (IF haslayer(pkt, "TCP") THEN <<"TCP">> ELSE <<>>)
             \o (IF haslayer(pkt, "UDP") THEN <<"UDP">> ELSE <<>>)
             \o (IF haslayer(pkt, "ICMP") THEN <<"ICMP">> ELSE <<>>)
             \o (IF haslayer(pkt, "DNS") THEN <<"DNS">> ELSE <<>>)
             \o (IF haslayer(pkt, "IPv6") THEN <<"IPv6">> ELSE <<>>)
             \o (IF haslayer(pkt, "IP") THEN <<"IPv4">> ELSE <<>>)
    IN IF t = <<>> THEN <<"Other">> ELSE t

LargeAlert == "Large capture: more than 100k packets."
DnsAlert == "High DNS volume relative to total traffic."
DominanceAlert == "Single host dominates traffic volume."

LargeRule(pcount) == pcount > LargeCapture

DnsRule_ge(pcount, dns_count) ==
    pcount # 0 /\ dns_count * DnsShareDen >= DnsShareNum * pcount

DnsRule(pcount, dns_count) ==
    pcount # 0 /\ dns_count * DnsShareDen > DnsShareNum * pcount

DominanceRule_top(tk) ==
    /\ tk # <<>>
    /\ LET ranked == Take(SortedDesc(tk, ItemValues(tk)), TopN)
           top == MaxValue(ranked)
           total == SumValues(ranked)
       IN total # 0 /\ top * DominanceDen > DominanceNum * total

DominanceRule(tk) ==
    /\ tk # <<>>
    /\ LET top == MaxValue(tk)
           total == SumValues(tk)
       IN total # 0 /\ top * DominanceDen > DominanceNum * total

alert_rules(summary, counts, tk) ==
    LET pcount == summary.packet_count
        dns_count == DictGet(counts, "DNS", 0)
    IN (IF LargeRule(pcount) THEN <<LargeAlert>> ELSE <<>>)
       \o (IF DnsRule(pcount, dns_count) THEN <<DnsAlert>> ELSE <<>>)
       \o (IF DominanceRule(tk) THEN <<DominanceAlert>> ELSE <<>>)

(***************************************************************************)
(* The body of the loop of parse_pcap, one dict at a time.                 *)
(***************************************************************************)
RECURSIVE CountTags(_, _)
CountTags(counts, t) ==
    IF t = <<>> THEN counts
    ELSE CountTags(DictSet(counts, t[1], DictGet(counts, t[1], 0) + 1), Tail(t))

TalkersStep_assign(tk, pkt) ==
    LET src == packet_src_dst(pkt)[1]
    IN IF src # NoneAddr THEN DictSet(tk, src, pkt.len) ELSE tk

TalkersStep(tk, pkt) ==
    LET src == packet_src_dst(pkt)[1]
    IN IF src # NoneAddr
       THEN DictSet(tk, src, DictGet(tk, src, 0) + pkt.len)
       ELSE tk

HostsStep(hosts, pkt) ==
    LET src == packet_src_dst(pkt)[1]
        dst == packet_src_dst(pkt)[2]
    IN hosts \cup (IF src # NoneAddr THEN {src} ELSE {})
             \cup (IF dst # NoneAddr THEN {dst} ELSE {})

FlowProto_udp_first(pkt) ==
    IF haslayer(pkt, "UDP") THEN "UDP"
    ELSE IF haslayer(pkt, "TCP") THEN "TCP" ELSE "Other"

FlowProto(pkt) ==
    IF haslayer(pkt, "TCP") THEN "TCP"
    ELSE IF haslayer(pkt, "UDP") THEN "UDP" ELSE "Other"

FlowKey(pkt) ==
    LET src == packet_src_dst(pkt)[1]
        dst == packet_src_dst(pkt)[2]
    IN <<IF src # NoneAddr THEN src ELSE Unknown,
         IF dst # NoneAddr THEN dst ELSE Unknown,
         FlowProto(pkt)>>

FlowsStep(fl, pkt) ==
    LET key == FlowKey(pkt)
        old == DictGet(fl, key, [packets |-> 0, bytes |-> 0])
    IN DictSet(fl, key, [packets |-> old.packets + 1,
                         bytes |-> old.bytes + pkt.len])

(***************************************************************************)
(* The report built after the loop.                                        *)
(***************************************************************************)
TopTalkers_unsorted(tk) ==
    LET top == Take(tk, TopN)
    IN [i \in 1..Len(top) |-> [ip |-> top[i][1], bytes |-> top[i][2]]]

TopTalkers_reversed(tk) ==
    LET top == Take(Reverse(SortedAsc(tk, ItemValues(tk))), TopN)
    IN [i \in 1..Len(top) |-> [ip |-> top[i][1], bytes |-> top[i][2]]]

TopTalkers(tk) ==
    LET top == Take(SortedDesc(tk, ItemValues(tk)), TopN)
    IN [i \in 1..Len(top) |-> [ip |-> top[i][1], bytes |-> top[i][2]]]

FlowItems(fl) ==
    LET top == Take(SortedDesc(fl, FlowBytes(fl)), TopN)
    IN [i \in 1..Len(top) |->
          [src |-> top[i][1][1], dst |-> top[i][1][2], protocol |-> top[i][1][3],
           bytes |-> top[i][2].bytes, packets |-> top[i][2].packets]]

Protocols(counts) ==
    LET mc == SortedDesc(counts, ItemValues(counts))
    IN [i \in 1..Len(mc) |-> [name |-> mc[i][1], count |-> mc[i][2]]]

Summary(cs, ce, pcount, tbytes, hosts, counts, tk) ==
    [capture_start |-> cs, capture_end |-> ce, packet_count |-> pcount,
     total_bytes |-> tbytes, unique_hosts |-> Cardinality(hosts),
     protocols |-> Protocols(counts), top_talkers |-> TopTalkers(tk)]

Report(cs, ce, pcount, tbytes, hosts, counts, tk, fl) ==
    LET summary == Summary(cs, ce, pcount, tbytes, hosts, counts, tk)
    IN [summary |-> [capture_start |-> summary.capture_start,
                     capture_end |-> summary.capture_end,
                     packet_count |-> summary.packet_count,
                     total_bytes |-> summary.total_bytes,
                     unique_hosts |-> summary.unique_hosts,
                     protocols |-> summary.protocols,
                     top_talkers |-> summary.top_talkers,
                     alerts |-> alert_rules(summary, counts, tk)],
        flows |-> FlowItems(fl)]

RECURSIVE MinTime(_)
MinTime(pkts) ==
    IF Len(pkts) = 1 THEN pkts[1].time
    ELSE LET m == MinTime(Tail(pkts)) IN IF pkts[1].time <= m THEN pkts[1].time ELSE m

CaptureStart_min(pkts) == IF Len(pkts) # 0 THEN iso_time(MinTime(pkts)) ELSE NoTime

CaptureStart(pkts) == IF Len(pkts) # 0 THEN iso_time(pkts[1].time) ELSE NoTime

CaptureEnd(pkts) == IF Len(pkts) # 0 THEN iso_time(pkts[Len(pkts)].time) ELSE NoTime

(***************************************************************************)
(* The temporary file and the decoder.                                     *)
(***************************************************************************)
EmptyBytes == [kind |-> "empty", pkts |-> <<>>]
Garbage == [kind |-> "garbage", pkts |-> <<>>]
Pcap(pkts) == [kind |-> "pcap", pkts |-> pkts]

FreshNames_reuse(dir) == TmpNames

FreshNames(dir) == {n \in TmpNames : dir[n] = NoRequest}

ReadCapture_lenient(dir, data, name) ==
    IF dir[name] # NoRequest /\ data[dir[name]].kind = "pcap"
    THEN [raised |-> "none", pkts |-> data[dir[name]].pkts]
    ELSE [raised |-> "none", pkts |-> <<>>]

ReadCapture(dir, data, name) ==
    IF dir[name] = NoRequest
    THEN [raised |-> "FileNotFoundError", pkts |-> <<>>]
    ELSE IF data[dir[name]].kind = "pcap"
         THEN [raised |-> "none", pkts |-> data[dir[name]].pkts]
         ELSE [raised |-> "Scapy_Exception", pkts |-> <<>>]

Decoded(out) == out.raised = "none"

(***************************************************************************)
(* The inputs: the captures the requests upload.                           *)
(***************************************************************************)
Pkt(t, l, ls, s4, d4, s6, d6) ==
    [time |-> t, len |-> l, layers |-> ls,
     ipsrc |-> IF "IP" \in ls THEN s4 ELSE NoneAddr,
     ipdst |-> IF "IP" \in ls THEN d4 ELSE NoneAddr,
     ip6src |-> IF "IPv6" \in ls THEN s6 ELSE NoneAddr,
     ip6dst |-> IF "IPv6" \in ls THEN d6 ELSE NoneAddr]

pA == Pkt(1, 2, {"TCP", "IP"}, 1, 2, 0, 0)
pB == Pkt(0, 1, {"TCP", "IP"}, 2, 1, 0, 0)
pC == Pkt(2, 1, {"UDP", "DNS", "IPv6"}, 0, 0, 3, 1)
pD == Pkt(1, 1, {}, 0, 0, 0, 0)
pDns == Pkt(0, 1, {"UDP", "DNS", "IP"}, 1, 2, 0, 0)
pWeb == Pkt(0, 1, {"TCP", "IP"}, 2, 1, 0, 0)

SmallPkts == {pA, pB, pC, pD}
WideLens == {1, 2, 18}

SeqsUpTo(S, n) == UNION {[1..k -> S] : k \in 0..n}

FamClassify == {<<Pkt(0, 1, ls, 1, 2, 3, 4)>> : ls \in SUBSET Layers}

FamSmall == SeqsUpTo(SmallPkts, MaxLen)

WideCapture(n, h1, l1, h2, l2) ==
    [k \in 1..n |->
        Pkt(k % 3, IF k = h1 THEN l1 ELSE IF k = h2 THEN l2 ELSE 1,
            IF k % 2 = 0 THEN {"TCP", "IP"} ELSE {"UDP", "IP"},
            n + 1 - k, 1, 0, 0)]

FamWide ==
    {WideCapture(n, h[1], l[1], h[2], l[2]) :
        n \in (WideHosts - 2)..WideHosts,
        h \in (1..WideHosts) \X (1..WideHosts),
        l \in WideLens \X WideLens}

DnsCapture(a, b) == [k \in 1..(a + b) |-> IF k <= a THEN pDns ELSE pWeb]

FamDns == {DnsCapture(a, b) : a \in 0..DnsLen, b \in 0..DnsLen}

SingleUploads ==
    {Pcap(c) : c \in FamClassify \cup FamSmall \cup FamWide
                     \cup {d \in FamDns : Len(d) <= DnsLen}}
    \cup {EmptyBytes, Garbage}

CrowdUploads == {Pcap(c) : c \in SeqsUpTo({pA}, CrowdLen)} \cup {Garbage}

Const(v) == [r \in Requests |-> v]

Init ==
    /\ \/ /\ upload \in [Requests -> CrowdUploads]
          /\ pc = Const("idle")
       \/ /\ \E c \in FamSmall :
                upload = [r \in Requests |->
                            IF r = 1 THEN Pcap(c)
                            ELSE IF r = 2 THEN Pcap(Reverse(c)) ELSE EmptyBytes]
          /\ pc = [r \in Requests |-> IF r \in {1, 2} THEN "idle" ELSE "absent"]
       \/ /\ \E u \in SingleUploads :
                upload = [r \in Requests |-> IF r = 1 THEN u ELSE EmptyBytes]
          /\ pc = [r \in Requests |-> IF r = 1 THEN "idle" ELSE "absent"]
    /\ running = NoRequest
    /\ tmpdir = [n \in TmpNames |-> NoRequest]
    /\ filedata = Const(EmptyBytes)
    /\ tmpname = Const(NoName)
    /\ packets = Const(<<>>)
    /\ idx = Const(0)
    /\ packet_count = Const(0)
    /\ total_bytes = Const(0)
    /\ capture_start = Const(NoTime)
    /\ capture_end = Const(NoTime)
    /\ protocol_counts = Const(<<>>)
    /\ talkers = Const(<<>>)
    /\ unique_hosts = Const({})
    /\ flows = Const(<<>>)
    /\ tags = Const(<<>>)
    /\ result = Const(<<>>)
    /\ raised = Const("none")

(***************************************************************************)
(* parse_pcap, from its entry to `await pcap.read()`.                       *)
(***************************************************************************)
Begin(r) ==
    /\ running = NoRequest
    /\ pc[r] = "idle"
    /\ \E n \in FreshNames(tmpdir) :
          /\ tmpname' = Upd(tmpname, r, n)
          /\ tmpdir' = Upd(tmpdir, n, r)
    /\ filedata' = Upd(filedata, r, EmptyBytes)
    /\ pc' = Upd(pc, r, "await_read")
    /\ UNCHANGED <<upload, running, packets, idx, packet_count, total_bytes,
                   capture_start, capture_end, protocol_counts, talkers,
                   unique_hosts, flows, tags, result, raised>>

(***************************************************************************)
(* The caller aborts while the handler waits for the upload: the await     *)
(* raises CancelledError and the with block removes the temporary file.    *)
(***************************************************************************)
Cancel(r) ==
    /\ running = NoRequest
    /\ pc[r] = "await_read"
    /\ tmpdir' = Upd(tmpdir, tmpname[r], NoRequest)
    /\ tmpname' = Upd(tmpname, r, NoName)
    /\ raised' = Upd(raised, r, "CancelledError")
    /\ pc' = Upd(pc, r, "cancelled")
    /\ UNCHANGED <<upload, running, filedata, packets, idx,
                   packet_count, total_bytes, capture_start, capture_end,
                   protocol_counts, talkers, unique_hosts, flows, tags, result>>

(***************************************************************************)
(* parse_pcap, from the completion of the await to the head of the loop,   *)
(* or to the exception of the decoder.                                     *)
(***************************************************************************)
ReadDone(r) ==
    /\ running = NoRequest
    /\ pc[r] = "await_read"
    /\ filedata' = Upd(filedata, r, upload[r])
    /\ tmpdir' = Upd(tmpdir, tmpname[r], NoRequest)
    /\ tmpname' = Upd(tmpname, r, NoName)
    /\ LET out == ReadCapture(tmpdir, filedata', tmpname[r])
       IN IF Decoded(out)
          THEN /\ packets' = Upd(packets, r, out.pkts)
               /\ packet_count' = Upd(packet_count, r, Len(out.pkts))
               /\ total_bytes' = Upd(total_bytes, r, SumLen(out.pkts))
               /\ capture_start' = Upd(capture_start, r, CaptureStart(out.pkts))
               /\ capture_end' = Upd(capture_end, r, CaptureEnd(out.pkts))
               /\ protocol_counts' = Upd(protocol_counts, r, <<>>)
               /\ talkers' = Upd(talkers, r, <<>>)
               /\ unique_hosts' = Upd(unique_hosts, r, {})
               /\ flows' = Upd(flows, r, <<>>)
               /\ idx' = Upd(idx, r, 1)
               /\ pc' = Upd(pc, r, "loop")
               /\ running' = r
               /\ UNCHANGED raised
          ELSE /\ raised' = Upd(raised, r, out.raised)
               /\ pc' = Upd(pc, r, "failed")
               /\ UNCHANGED <<running, packets, idx, packet_count, total_bytes,
                              capture_start, capture_end, protocol_counts,
                              talkers, unique_hosts, flows>>
    /\ UNCHANGED <<upload, tags, result>>

(***************************************************************************)
(* One iteration of `for pkt in packets`.                                  *)
(***************************************************************************)
LoopStep(r) ==
    /\ running = r
    /\ pc[r] = "loop"
    /\ idx[r] <= Len(packets[r])
    /\ LET pkt == packets[r][idx[r]]
       IN /\ tags' = Upd(tags, r, protocol_tags(pkt))
          /\ protocol_counts' =
                Upd(protocol_counts, r, CountTags(protocol_counts[r], protocol_tags(pkt)))
          /\ talkers' = Upd(talkers, r, TalkersStep(talkers[r], pkt))
          /\ unique_hosts' = Upd(unique_hosts, r, HostsStep(unique_hosts[r], pkt))
          /\ flows' = Upd(flows, r, FlowsStep(flows[r], pkt))
    /\ idx' = Upd(idx, r, idx[r] + 1)
    /\ UNCHANGED <<upload, pc, running, tmpdir, filedata, tmpname, packets,
                   packet_count, total_bytes, capture_start, capture_end,
                   result, raised>>

(***************************************************************************)
(* parse_pcap after the loop: the rankings, the summary, the alerts and    *)
(* the return.                                                             *)
(***************************************************************************)
Finish(r) ==
    /\ running = r
    /\ pc[r] = "loop"
    /\ idx[r] > Len(packets[r])
    /\ result' = Upd(result, r,
          <<Report(capture_start[r], capture_end[r], packet_count[r],
                   total_bytes[r], unique_hosts[r], protocol_counts[r],
                   talkers[r], flows[r])>>)
    /\ pc' = Upd(pc, r, "done")
    /\ running' = NoRequest
    /\ UNCHANGED <<upload, tmpdir, filedata, tmpname, packets, idx,
                   packet_count, total_bytes, capture_start, capture_end,
                   protocol_counts, talkers, unique_hosts, flows, tags, raised>>

Next ==
    \E r \in Requests :
        \/ Begin(r)
        \/ Cancel(r)
        \/ ReadDone(r)
        \/ LoopStep(r)
        \/ Finish(r)

Spec == Init /\ [][Next]_vars

TypeOK ==
    /\ running \in Requests \cup {NoRequest}
    /\ \A r \in Requests :
          pc[r] \in {"absent", "idle", "await_read", "loop", "done", "failed", "cancelled"}

(***************************************************************************)
(* What a capture contains, computed from the uploaded packets alone and   *)
(* independently of the order in which they are processed.                 *)
(***************************************************************************)
Done(r) == pc[r] = "done"

Rep(r) == result[r][1]

Input(r) == upload[r].pkts

RECURSIVE SumOver(_, _)
SumOver(S, f) ==
    IF S = {} THEN 0
    ELSE LET x == CHOOSE y \in S : TRUE IN f[x] + SumOver(S \ {x}, f)

LenOf(pkts) == [i \in 1..Len(pkts) |-> pkts[i].len]

SrcOf(p) ==
    IF "IP" \in p.layers THEN p.ipsrc
    ELSE IF "IPv6" \in p.layers THEN p.ip6src ELSE NoneAddr

DstOf(p) ==
    IF "IP" \in p.layers THEN p.ipdst
    ELSE IF "IPv6" \in p.layers THEN p.ip6dst ELSE NoneAddr

LabelOf(p) ==
    IF "TCP" \in p.layers THEN "TCP" ELSE IF "UDP" \in p.layers THEN "UDP" ELSE "Other"

KeyOf(p) ==
    <<IF SrcOf(p) = NoneAddr THEN Unknown ELSE SrcOf(p),
      IF DstOf(p) = NoneAddr THEN Unknown ELSE DstOf(p), LabelOf(p)>>

Sources(pkts) == {SrcOf(pkts[i]) : i \in 1..Len(pkts)} \ {NoneAddr}

SentBy(pkts, h) == {i \in 1..Len(pkts) : SrcOf(pkts[i]) = h}

BytesSent(pkts, h) == SumOver(SentBy(pkts, h), LenOf(pkts))

FlowKeys(pkts) == {KeyOf(pkts[i]) : i \in 1..Len(pkts)}

InFlow(pkts, k) == {i \in 1..Len(pkts) : KeyOf(pkts[i]) = k}

BytesOfFlow(pkts, k) == SumOver(InFlow(pkts, k), LenOf(pkts))

FirstOf(S) == CHOOSE i \in S : \A j \in S : i <= j

EntryKey(e) == <<e.src, e.dst, e.protocol>>

(***************************************************************************)
(* C1. In every returned report, top_talkers and flows are sorted by       *)
(* non-increasing byte total, hold at most 12 entries, every entry is an   *)
(* aggregated host (flow) with its byte total, and no aggregated host      *)
(* (flow) missing from the list has more bytes than an entry of the list.  *)
(***************************************************************************)
C1_TopListsRanked ==
    \A r \in Requests : Done(r) =>
        LET tt == Rep(r).summary.top_talkers
            fl == Rep(r).flows
            in == Input(r)
        IN /\ Len(tt) <= 12
           /\ Len(fl) <= 12
           /\ \A i, j \in 1..Len(tt) : i < j => tt[i].bytes >= tt[j].bytes
           /\ \A i, j \in 1..Len(fl) : i < j => fl[i].bytes >= fl[j].bytes
           /\ \A i \in 1..Len(tt) :
                 tt[i].ip \in Sources(in) /\ tt[i].bytes = BytesSent(in, tt[i].ip)
           /\ \A i \in 1..Len(fl) :
                 /\ EntryKey(fl[i]) \in FlowKeys(in)
                 /\ fl[i].bytes = BytesOfFlow(in, EntryKey(fl[i]))
           /\ \A h \in Sources(in) :
                 h \notin {tt[i].ip : i \in 1..Len(tt)} =>
                    \A i \in 1..Len(tt) : BytesSent(in, h) <= tt[i].bytes
           /\ \A k \in FlowKeys(in) :
                 k \notin {EntryKey(fl[i]) : i \in 1..Len(fl)} =>
                    \A i \in 1..Len(fl) : BytesOfFlow(in, k) <= fl[i].bytes

C1_Witness ==
    \E r \in Requests :
        /\ Done(r)
        /\ Cardinality(Sources(Input(r))) > 12
        /\ Len(Rep(r).summary.top_talkers) = 12
        /\ Len(Rep(r).flows) = 12
        /\ Rep(r).summary.top_talkers[1].bytes > Rep(r).summary.top_talkers[12].bytes

(***************************************************************************)
(* C9. In top_talkers and in flows, entries with equal byte totals stand   *)
(* in the order in which their host was first seen as a source (their flow *)
(* key was first seen) in the capture, and of two hosts (flows) with equal *)
(* totals of which only one is listed, the listed one was seen first.      *)
(***************************************************************************)
C9_TiesInEncounterOrder ==
    \A r \in Requests : Done(r) =>
        LET tt == Rep(r).summary.top_talkers
            fl == Rep(r).flows
            in == Input(r)
            seenHost(h) == FirstOf(SentBy(in, h))
            seenFlow(k) == FirstOf(InFlow(in, k))
        IN /\ \A i, j \in 1..Len(tt) :
                 (i < j /\ tt[i].bytes = tt[j].bytes) =>
                    seenHost(tt[i].ip) < seenHost(tt[j].ip)
           /\ \A i, j \in 1..Len(fl) :
                 (i < j /\ fl[i].bytes = fl[j].bytes) =>
                    seenFlow(EntryKey(fl[i])) < seenFlow(EntryKey(fl[j]))
           /\ \A i \in 1..Len(tt) : \A h \in Sources(in) :
                 (h \notin {tt[n].ip : n \in 1..Len(tt)}
                    /\ BytesSent(in, h) = tt[i].bytes) =>
                        seenHost(tt[i].ip) < seenHost(h)
           /\ \A i \in 1..Len(fl) : \A k \in FlowKeys(in) :
                 (k \notin {EntryKey(fl[n]) : n \in 1..Len(fl)}
                    /\ BytesOfFlow(in, k) = fl[i].bytes) =>
                        seenFlow(EntryKey(fl[i])) < seenFlow(k)

C9_Witness ==
    \E r \in Requests :
        /\ Done(r)
        /\ Cardinality(Sources(Input(r))) > 12
        /\ LET tt == Rep(r).summary.top_talkers
           IN /\ Len(tt) = 12
              /\ tt[11].bytes = tt[12].bytes
              /\ \E h \in Sources(Input(r)) :
                    /\ h \notin {tt[n].ip : n \in 1..Len(tt)}
                    /\ BytesSent(Input(r), h) = tt[12].bytes

(***************************************************************************)
(* C3. The alert "Single host dominates traffic volume." is in the alerts  *)
(* exactly when the capture has a talker and the largest byte total of a   *)
(* talker is more than 0.6 of the byte total of all talkers, whatever      *)
(* their number; with no talker the alert is absent.                       *)
(***************************************************************************)
C3_DominanceAlert ==
    \A r \in Requests : Done(r) =>
        LET in == Input(r)
            hosts == Sources(in)
            total == SumOver({i \in 1..Len(in) : SrcOf(in[i]) # NoneAddr}, LenOf(in))
            fires == /\ hosts # {}
                     /\ total > 0
                     /\ \E h \in hosts : 10 * BytesSent(in, h) > 6 * total
        IN (DominanceAlert \in Range(Rep(r).summary.alerts)) <=> fires

C3_Witness ==
    \E r \in Requests :
        /\ Done(r)
        /\ Cardinality(Sources(Input(r))) > 12
        /\ DominanceAlert \notin Range(Rep(r).summary.alerts)
        /\ LET tt == Rep(r).summary.top_talkers
           IN 10 * tt[1].bytes > 6 * SumOver(1..Len(tt), [i \in 1..Len(tt) |-> tt[i].bytes])

(***************************************************************************)
(* C4. The alert "High DNS volume relative to total traffic." is in the    *)
(* alerts exactly when the capture is not empty and strictly more than 35%  *)
(* of its packets carry a DNS layer; during the pass the DNS count is the  *)
(* number of processed packets that carry a DNS layer.                     *)
(***************************************************************************)
DnsPackets(pkts, n) == {i \in 1..n : "DNS" \in pkts[i].layers}

C4_DnsAlert ==
    \A r \in Requests :
        /\ pc[r] \in {"loop", "done"} =>
              DictGet(protocol_counts[r], "DNS", 0) =
                 Cardinality(DnsPackets(packets[r], idx[r] - 1))
        /\ Done(r) =>
              LET in == Input(r)
                  dns == Cardinality(DnsPackets(in, Len(in)))
              IN (DnsAlert \in Range(Rep(r).summary.alerts))
                    <=> (Len(in) > 0 /\ 100 * dns > 35 * Len(in))

C4_Witness ==
    \E r \in Requests :
        /\ Done(r)
        /\ Len(Input(r)) = 20
        /\ Cardinality(DnsPackets(Input(r), 20)) = 7
        /\ DnsAlert \notin Range(Rep(r).summary.alerts)

TagNames == {"TCP", "UDP", "ICMP", "DNS", "IPv6", "IPv4", "Other"}

Carries(p, tag) ==
    IF tag = "Other" THEN p.layers \cap Layers = {}
    ELSE IF tag = "IPv4" THEN "IP" \in p.layers
    ELSE tag \in p.layers

Tagged(pkts, tag) == {i \in 1..Len(pkts) : Carries(pkts[i], tag)}

Addresses(pkts) ==
    ({SrcOf(pkts[i]) : i \in 1..Len(pkts)} \cup {DstOf(pkts[i]) : i \in 1..Len(pkts)})
        \ {NoneAddr}

Occurrences(pkts, p) == Cardinality({i \in 1..Len(pkts) : pkts[i] = p})

IsPermutation(s, t) ==
    /\ Len(s) = Len(t)
    /\ \A p \in Range(s) \cup Range(t) : Occurrences(s, p) = Occurrences(t, p)

C5_CountersAreSums ==
    /\ \A r \in Requests : Done(r) =>
          LET in == Input(r)
          IN /\ Rep(r).summary.packet_count = Len(in)
             /\ Rep(r).summary.total_bytes = SumOver(1..Len(in), LenOf(in))
             /\ Rep(r).summary.unique_hosts = Cardinality(Addresses(in))
             /\ \A tag \in TagNames :
                   DictGet(protocol_counts[r], tag, 0) = Cardinality(Tagged(in, tag))
             /\ Keys(talkers[r]) = Sources(in)
             /\ \A h \in Sources(in) : DictGet(talkers[r], h, 0) = BytesSent(in, h)
             /\ Keys(flows[r]) = FlowKeys(in)
             /\ \A k \in FlowKeys(in) :
                   DictGet(flows[r], k, [packets |-> 0, bytes |-> 0]) =
                      [packets |-> Cardinality(InFlow(in, k)),
                       bytes |-> BytesOfFlow(in, k)]
    /\ \A r1, r2 \in Requests :
          (Done(r1) /\ Done(r2) /\ IsPermutation(Input(r1), Input(r2))) =>
             /\ Rep(r1).summary.packet_count = Rep(r2).summary.packet_count
             /\ Rep(r1).summary.total_bytes = Rep(r2).summary.total_bytes
             /\ Rep(r1).summary.unique_hosts = Rep(r2).summary.unique_hosts
             /\ Range(protocol_counts[r1]) = Range(protocol_counts[r2])
             /\ Range(talkers[r1]) = Range(talkers[r2])
             /\ Range(flows[r1]) = Range(flows[r2])

C5_Witness ==
    \E r1, r2 \in Requests :
        /\ Done(r1) /\ Done(r2)
        /\ Input(r1) # Input(r2)
        /\ Len(Input(r1)) >= 2
        /\ IsPermutation(Input(r1), Input(r2))

(***************************************************************************)
(* C6. capture_start is the timestamp of the first packet of the capture   *)
(* and capture_end that of the last one, as UTC date and time, whatever    *)
(* the other timestamps are; both are null when the capture is empty.      *)
(***************************************************************************)
IsIsoOf(iso, t) ==
    /\ Len(iso) = 6
    /\ iso[1] = 1970 /\ iso[2] = 1 /\ iso[3] = 1
    /\ iso[4] \in 0..23 /\ iso[5] \in 0..59 /\ iso[6] \in 0..59
    /\ 3600 * iso[4] + 60 * iso[5] + iso[6] = t

C6_CaptureBounds ==
    \A r \in Requests : Done(r) =>
        LET in == Input(r)
            sm == Rep(r).summary
        IN IF in = <<>>
           THEN sm.capture_start = NoTime /\ sm.capture_end = NoTime
           ELSE /\ IsIsoOf(sm.capture_start, in[1].time)
                /\ IsIsoOf(sm.capture_end, in[Len(in)].time)

C6_Witness ==
    \E r \in Requests :
        /\ Done(r)
        /\ Len(Input(r)) = 3
        /\ Input(r)[1].time > Input(r)[3].time
        /\ Input(r)[2].time > Input(r)[1].time
        /\ Rep(r).summary.capture_start # Rep(r).summary.capture_end

(***************************************************************************)
(* C7. The tag list computed for a packet is not empty and has no          *)
(* duplicates; it is <<"Other">> exactly when the packet has none of the   *)
(* six layers, and otherwise holds exactly the tags of the layers present, *)
(* in the order TCP, UDP, ICMP, DNS, IPv6, IPv4, without "Other".          *)
(***************************************************************************)
TagOrder == <<"TCP", "UDP", "ICMP", "DNS", "IPv6", "IPv4">>

RankOf(tag) == CHOOSE i \in 1..Len(TagOrder) : TagOrder[i] = tag

C7_ProtocolTags ==
    \A r \in Requests : (pc[r] \in {"loop", "done"} /\ idx[r] > 1) =>
        LET p == packets[r][idx[r] - 1]
            t == tags[r]
        IN /\ Len(t) >= 1
           /\ \A i, j \in 1..Len(t) : i # j => t[i] # t[j]
           /\ (t = <<"Other">>) <=> (p.layers \cap Layers = {})
           /\ p.layers \cap Layers # {} =>
                 /\ Range(t) = {tag \in Range(TagOrder) : Carries(p, tag)}
                 /\ \A i, j \in 1..Len(t) : i < j => RankOf(t[i]) < RankOf(t[j])

C7_Witness ==
    \E r \in Requests :
        /\ pc[r] = "loop"
        /\ idx[r] > 1
        /\ tags[r] = <<"TCP", "UDP", "ICMP", "DNS", "IPv6", "IPv4">>

(***************************************************************************)
(* C8. Every request that returns, returns the report of its own upload    *)
(* processed alone, and every request that fails, fails because its own    *)
(* upload is unreadable, whatever the other requests do; a request that    *)
(* has ended or was abandoned leaves no temporary file behind.             *)
(***************************************************************************)
AloneCounts(pkts) ==
    LET f[n \in 0..Len(pkts)] ==
            IF n = 0 THEN <<>> ELSE CountTags(f[n - 1], protocol_tags(pkts[n]))
    IN f[Len(pkts)]

AloneTalkers(pkts) ==
    LET f[n \in 0..Len(pkts)] ==
            IF n = 0 THEN <<>> ELSE TalkersStep(f[n - 1], pkts[n])
    IN f[Len(pkts)]

AloneHosts(pkts) ==
    LET f[n \in 0..Len(pkts)] ==
            IF n = 0 THEN {} ELSE HostsStep(f[n - 1], pkts[n])
    IN f[Len(pkts)]

AloneFlows(pkts) ==
    LET f[n \in 0..Len(pkts)] ==
            IF n = 0 THEN <<>> ELSE FlowsStep(f[n - 1], pkts[n])
    IN f[Len(pkts)]

ParseAlone(pkts) ==
    CHOOSE rep \in {Report(CaptureStart(pkts), CaptureEnd(pkts), Len(pkts),
                           SumLen(pkts), hosts, counts, tk, fl) :
                        hosts \in {AloneHosts(pkts)}, counts \in {AloneCounts(pkts)},
                        tk \in {AloneTalkers(pkts)}, fl \in {AloneFlows(pkts)}} : TRUE

C8_RequestsIsolated ==
    \A r \in Requests :
        /\ Done(r) =>
              /\ upload[r].kind = "pcap"
              /\ raised[r] = "none"
              /\ result[r] = <<ParseAlone(Input(r))>>
        /\ pc[r] = "failed" =>
              /\ upload[r].kind # "pcap"
              /\ raised[r] = "Scapy_Exception"
              /\ result[r] = <<>>
        /\ pc[r] \in {"done", "failed", "cancelled", "loop"} =>
              \A n \in TmpNames : tmpdir[n] # r
        /\ pc[r] = "cancelled" => result[r] = <<>>

C8_Witness ==
    \E r1, r2 \in Requests :
        /\ r1 # r2
        /\ Done(r1)
        /\ Len(Input(r1)) >= 1
        /\ pc[r2] = "await_read"
        /\ tmpdir[tmpname[r2]] = r2
        /\ upload[r2] # upload[r1]

(***************************************************************************)
(* C10. An iteration of the pass updates exactly the flow entry keyed by   *)
(* (source or "unknown", destination or "unknown", TCP before UDP before   *)
(* Other), adding 1 to its packets and the packet length to its bytes;     *)
(* after it the packet counts of all flows sum to the number of packets    *)
(* processed and the byte counts to the sum of their lengths; no step of   *)
(* the handler makes a flow counter decrease.                              *)
(***************************************************************************)
ZeroStats == [packets |-> 0, bytes |-> 0]

FlowPackets(fl) == SumOver(1..Len(fl), [i \in 1..Len(fl) |-> fl[i][2].packets])

FlowBytesSum(fl) == SumOver(1..Len(fl), [i \in 1..Len(fl) |-> fl[i][2].bytes])

C10_FlowAccounting ==
    [][\A r \in Requests :
          /\ \A k \in Keys(flows[r]) :
                /\ k \in Keys(flows'[r])
                /\ DictGet(flows'[r], k, ZeroStats).packets
                      >= DictGet(flows[r], k, ZeroStats).packets
                /\ DictGet(flows'[r], k, ZeroStats).bytes
                      >= DictGet(flows[r], k, ZeroStats).bytes
          /\ (pc[r] = "loop" /\ idx'[r] = idx[r] + 1) =>
                LET p == packets[r][idx[r]]
                    key == KeyOf(p)
                    old == DictGet(flows[r], key, ZeroStats)
                IN /\ Keys(flows'[r]) = Keys(flows[r]) \cup {key}
                   /\ DictGet(flows'[r], key, ZeroStats) =
                         [packets |-> old.packets + 1, bytes |-> old.bytes + p.len]
                   /\ \A k \in Keys(flows[r]) \ {key} :
                         DictGet(flows'[r], k, ZeroStats) = DictGet(flows[r], k, ZeroStats)
                   /\ Len(flows'[r]) = Cardinality(Keys(flows'[r]))
                   /\ FlowPackets(flows'[r]) = idx[r]
                   /\ FlowBytesSum(flows'[r]) = SumOver(1..idx[r], LenOf(packets[r]))
      ]_vars

C10_Witness ==
    \E r \in Requests :
        /\ pc[r] = "loop"
        /\ idx[r] = 4
        /\ Len(flows[r]) = 2
        /\ \E i \in 1..Len(flows[r]) : flows[r][i][2].packets = 2
        /\ Unknown \in {flows[r][i][1][1] : i \in 1..Len(flows[r])}
====
